---- MODULE Spec2Model ----
(***************************************************************************)
(* A model of crates/vector_store/src/vector_store.rs: the indexing        *)
(* pipeline (parse workers -> batch accumulator -> embed worker -> DB      *)
(* writer), add_project's pass over a worktree, the change callback with   *)
(* its pending_files debouncer, and search.                                *)
(*                                                                         *)
(* db.rs and embedding.rs are not part of the sources at hand; the         *)
(* database operations and the embedding provider are modelled from their  *)
(* documented contracts.                                                   *)
(***************************************************************************)
EXTENDS Integers, Sequences, FiniteSets, TLC

VARIABLES
    now,              \* SystemTime::now(), in seconds
    disk,             \* the worktree's files: path -> [exists, mtime, frags]
    project_worktrees,\* project.worktrees(cx): sequence of [id, abs_path]
    project_state,    \* this.projects[project]: <<>> or <<ProjectState>>
    ap,               \* the add_project task: [pc, replies]
    parsing_files,    \* channel parsing_files_tx/rx: Seq(PendingFile)
    parse_workers,    \* per parse worker: <<>> (at recv) or <<PendingFile>>
    batch_files,      \* channel batch_files_tx/rx
    embeddings_queue, \* the accumulator's local embeddings_queue
    queue_len,        \* the accumulator's local queue_len
    embed_batch,      \* channel embed_batch_tx/rx: Seq(batch)
    embed_alive,      \* FALSE once the embed worker has panicked
    db_update,        \* channel db_update_tx/rx: Seq(DbWrite)
    db_worktrees,     \* table worktrees: Seq(absolute_path), id = index
    db_files,         \* tables files+documents: set of file rows
    search,           \* the search task
    tasks,            \* the VectorStore handle and its tasks: dropped, running
    hist              \* history record read by the properties only

vars == <<now, disk, project_worktrees, project_state, ap, parsing_files,
          parse_workers, batch_files, embeddings_queue, queue_len, embed_batch,
          embed_alive, db_update, db_worktrees, db_files, search, tasks,
          hist>>

----------------------------------------------------------------------------
(* Bounds of the model *)

\* Relative paths of the files a worktree can hold, in the order in which
\* worktree.files() walks them.
PathOrder == <<"lib.src", "mod.src">>

Paths == {PathOrder[i] : i \in DOMAIN PathOrder}

\* A file whose language has no embedding configuration; the walk comes to it
\* after the files of PathOrder.
PlainPath == "notes.txt"

\* A symbolic link to a file, and a file that is ignored; their language
\* has an embedding configuration.
LinkPath == "link.src"

IgnoredPath == "target.src"

\* The paths of a worktree whose files all are regular and not ignored.
WalkPaths == Paths \cup {PlainPath}

\* The order in which the entries of a worktree's snapshot are iterated.
WalkOrder == PathOrder \o <<PlainPath, LinkPath, IgnoredPath>>

\* The clock runs from 1 to MaxClock.
MaxClock == 5

\* Files are written (created or saved) at most this often.
MaxWrites == 1

\* The change callback runs at most this often.
MaxNotifications == 4

\* A WorktreeUpdatedEntries event carries 1..MaxChanges changes.
MaxChanges == 2

\* A file holds 0..MaxFrags fragments that match the embedding query.
MaxFrags == 2

\* Stand-in for cx.background().num_cpus().
NumParseWorkers == 2

\* add_project is called at most this often.
MaxAddProject == 2

\* The file of the first worktree holds 0..MaxDocs documents when searched.
MaxDocs == 2

\* search is called with a limit in 0..MaxLimit.
MaxLimit == 3

\* The batch queue holds up to MaxBatchItems items at the start.
MaxBatchItems == 6

\* The accumulator and the embed worker together are given up to
\* MaxEmbedItems items.
MaxEmbedItems == 5

\* With the clock running, the change callback runs at most this often.
MaxPendingNotifications == 3

\* With every task that holds a database handle running, the change
\* callback runs at most this often.
MaxWriterNotifications == 1

\* The parse queue holds up to MaxParseItems files at the start.
MaxParseItems == 4

\* The DB writer's queue holds up to MaxCommands commands at the start.
MaxCommands == 4

\* Embeddings of stored documents and of search phrases (one dimension).
EmbeddingValues == {<<1, 0, 0, 0>>, <<0, 1, 0, 0>>, <<1, 1, 0, 0>>}

PhraseEmbeddings == {<<1, 0, 0, 0>>, <<1, 1, 0, 0>>}

\* Scaled stand-in for the batch threshold (150 in the source): larger than
\* MaxFrags, so that one file alone never fills a batch.
EMBEDDINGS_BATCH_SIZE == 3

REINDEXING_DELAY_SECONDS == 3

----------------------------------------------------------------------------
(* Helpers on sequences and sets *)

Range(s) == {s[i] : i \in DOMAIN s}

\* All orders in which the elements of S can be iterated (HashMap iteration
\* order is unspecified).
Orders(S) == {s \in [1..Cardinality(S) -> S] : Range(s) = S}

RECURSIVE Flatten(_)
Flatten(seqs) ==
    IF seqs = <<>> THEN <<>> ELSE Head(seqs) \o Flatten(Tail(seqs))

----------------------------------------------------------------------------
(* The filesystem and the clock (environment) *)

NoFile == [exists |-> FALSE, mtime |-> 0, frags |-> 0]

\* A variant of Tick with a timer that submits the pending files whose time
\* has come; C22 does not hold of it.
TickDrains ==
    /\ now < MaxClock
    /\ now' = now + 1
    /\ IF project_state = <<>>
       THEN UNCHANGED <<project_state, parsing_files>>
       ELSE LET out == {e \in project_state[1].pending_files :
                           e.indexing_time <= now'}
            IN  /\ project_state' =
                      <<[project_state[1] EXCEPT !.pending_files = @ \ out]>>
                /\ \E order \in [1..Cardinality(out) -> out] :
                      /\ {order[i] : i \in DOMAIN order} = out
                      /\ parsing_files' = parsing_files \o
                            [i \in DOMAIN order |-> order[i].file]
    /\ UNCHANGED <<disk, project_worktrees, ap, parse_workers, batch_files,
                   embeddings_queue, queue_len, embed_batch, embed_alive,
                   db_update, db_worktrees, db_files, search, hist, tasks>>

\* SystemTime advances.
Tick ==
    /\ now < MaxClock
    /\ now' = now + 1
    /\ UNCHANGED <<disk, project_worktrees, project_state, ap, parsing_files,
                   parse_workers, batch_files, embeddings_queue, queue_len,
                   embed_batch, embed_alive, db_update, db_worktrees, db_files,
                   search, tasks>>
    /\ hist' = hist

\* A file is created or saved with n fragments; its mtime becomes the time of
\* the write, a new instant.
FsWrite(p, n) ==
    /\ now < MaxClock
    /\ hist.writes < MaxWrites
    /\ now' = now + 1
    /\ disk' = [disk EXCEPT ![p] = [exists |-> TRUE, mtime |-> now', frags |-> n]]
    /\ hist' = [hist EXCEPT !.fs_changed = TRUE,
                            !.absent = hist.absent \ {p},
                            !.cb_gone = hist.cb_gone \ {p},
                            !.writes = hist.writes + 1]
    /\ UNCHANGED <<project_worktrees, project_state, ap, parsing_files,
                   parse_workers, batch_files, embeddings_queue, queue_len,
                   embed_batch, embed_alive, db_update, db_worktrees, db_files,
                   search, tasks>>

\* A file disappears from the worktree.
FsRemove(p) ==
    /\ disk[p].exists
    /\ disk' = [disk EXCEPT ![p] = NoFile]
    /\ hist' = [hist EXCEPT !.fs_changed = TRUE]
    /\ UNCHANGED <<now, project_worktrees, project_state, ap, parsing_files,
                   parse_workers, batch_files, embeddings_queue, queue_len,
                   embed_batch, embed_alive, db_update, db_worktrees, db_files,
                   search, tasks>>

----------------------------------------------------------------------------
(* The vector database (db.rs), from its documented contract *)

RowsOf(files, worktree_id, path) ==
    {r \in files : r.worktree_id = worktree_id /\ r.relative_path = path}

\* find_or_create_worktree(abs_path): the id of the existing row, or of a
\* new row appended to the table.
WorktreeIdOf(worktrees, path) ==
    IF \E i \in DOMAIN worktrees : worktrees[i] = path
    THEN CHOOSE i \in DOMAIN worktrees : worktrees[i] = path
    ELSE Len(worktrees) + 1

find_or_create_worktree(worktrees, path) ==
    IF \E i \in DOMAIN worktrees : worktrees[i] = path
    THEN worktrees
    ELSE Append(worktrees, path)

\* insert_file(worktree_id, file): in one transaction, delete any prior row of
\* (worktree_id, file.path) with its documents, then insert the new row.
insert_file(files, worktree_id, indexed_file) ==
    (files \ RowsOf(files, worktree_id, indexed_file.path))
        \cup {[worktree_id   |-> worktree_id,
               relative_path |-> indexed_file.path,
               mtime         |-> indexed_file.mtime,
               documents     |-> indexed_file.documents,
               content_mtime |-> indexed_file.content_mtime]}

\* delete_file(worktree_id, path): removes the row and its documents.
delete_file(files, worktree_id, path) ==
    files \ RowsOf(files, worktree_id, path)

\* get_file_mtimes(worktree_id): relative_path -> mtime of the stored rows.
get_file_mtimes(files, worktree_id) ==
    LET stored == {r.relative_path : r \in {x \in files : x.worktree_id = worktree_id}}
    IN  [p \in stored |->
            (CHOOSE r \in files : r.worktree_id = worktree_id
                                   /\ r.relative_path = p).mtime]

\* The project loses its first worktree while add_project waits for the
\* scans and the worktree ids.
WorktreeRemoved ==
    /\ ap.pc = "await"
    /\ Len(project_worktrees) > 1
    /\ project_worktrees' = Tail(project_worktrees)
    /\ UNCHANGED <<now, disk, project_state, ap, parsing_files, parse_workers,
                   batch_files, embeddings_queue, queue_len, embed_batch,
                   embed_alive, db_update, db_worktrees, db_files, search,
                   hist, tasks>>

----------------------------------------------------------------------------
(* The pipeline's data *)

\* struct PendingFile (absolute_path and language are left out: every path of
\* the model has a language with an embedding configuration).
PendingFile(worktree_db_id, path, mtime) ==
    [worktree_db_id |-> worktree_db_id,
     relative_path  |-> path,
     modified_time  |-> mtime]

\* The text of fragment i of the file at `path` as written at `mtime`.
SpanText(path, mtime, i) == <<path, mtime, i>>

\* Every worker is at its recv and every channel is empty.
WorkersIdle ==
    /\ parsing_files = <<>>
    /\ \A w \in DOMAIN parse_workers : parse_workers[w] = <<>>
    /\ batch_files = <<>>
    /\ embed_batch = <<>> \/ ~embed_alive
    /\ db_update = <<>>

\* No pipeline worker has a step left and no add_project is under way.
PipelineIdle == ap.pc = "idle" /\ WorkersIdle

\* The handle is held and every task is running.
TasksRunning ==
    [dropped |-> FALSE,
     parse   |-> [w \in 1..NumParseWorkers |-> TRUE],
     batch   |-> TRUE,
     embed   |-> TRUE,
     db      |-> TRUE]

----------------------------------------------------------------------------
(* add_project *)

\* add_project up to the spawn: one find_or_create_worktree request per
\* worktree of the project, in the order of project.worktrees().
AddProjectCall ==
    /\ ~tasks.dropped
    /\ ap.pc = "idle"
    /\ ap.calls < MaxAddProject
    /\ db_update' = db_update \o
           [i \in DOMAIN project_worktrees |->
               [kind   |-> "FindOrCreateWorktree",
                path   |-> project_worktrees[i].abs_path,
                sender |-> i]]
    /\ ap' = [pc      |-> "await",
              calls   |-> ap.calls + 1,
              replies |-> [i \in DOMAIN project_worktrees |-> <<>>]]
    /\ hist' = [hist EXCEPT !.call_idle = WorkersIdle]
    /\ UNCHANGED <<now, disk, project_worktrees, project_state, parsing_files,
                   parse_workers, batch_files, embeddings_queue, queue_len,
                   embed_batch, embed_alive, db_worktrees, db_files, search, tasks>>

\* A variant of WalkAlreadyStored that takes any stored mtime for the file's;
\* C20 does not hold of it.
WalkAlreadyStoredAnyMtime(file_mtimes, path, mtime) ==
    path \in DOMAIN file_mtimes

\* already_stored of the walk: the stored mtime equals the file's mtime.
WalkAlreadyStored(file_mtimes, path, mtime) ==
    path \in DOMAIN file_mtimes /\ file_mtimes[path] = mtime

\* language_for_file(path) is Ok and the language's grammar has an
\* embedding_config.
HasEmbeddingConfig(path) == path # PlainPath

\* entry.is_symlink and entry.is_ignored of the worktree's entry for a path.
IsSymlink(path) == path = LinkPath

IsIgnored(path) == path = IgnoredPath

\* worktree.files(false, 0): the file entries of the snapshot that are not
\* ignored.
WorktreeFiles(files) ==
    {p \in DOMAIN files : files[p].exists /\ ~IsIgnored(p)}

\* The files of the snapshot that the walk does not skip: file_mtimes.remove
\* is called for exactly these.
WalkVisited(files) ==
    {p \in WorktreeFiles(files) : HasEmbeddingConfig(p)}

\* The files the walk over one worktree snapshot submits to the parse queue.
WalkSubmits(files, file_mtimes, db_id) ==
    LET Stale(p) == /\ p \in WalkVisited(files)
                    /\ ~WalkAlreadyStored(file_mtimes, p, files[p].mtime)
        todo == SelectSeq(WalkOrder, Stale)
    IN  [i \in DOMAIN todo |-> PendingFile(db_id, todo[i], files[todo[i]].mtime)]

\* The keys left in file_mtimes after the walk removed every visited file.
WalkLeftOver(files, file_mtimes) ==
    DOMAIN file_mtimes \ WalkVisited(files)

\* worktrees.iter().zip(worktree_db_ids): the worktrees of the snapshot
\* paired by position with the replies to the requests made at the call.
ZipWorktrees(worktrees, replies) ==
    LET n == IF Len(worktrees) < Len(replies) THEN Len(worktrees)
             ELSE Len(replies)
    IN  [i \in 1..n |-> <<worktrees[i].id, replies[i][1]>>]

\* The rest of add_project, once the scans are complete and the worktree ids
\* have been received: the worktree snapshots, the stored mtimes, the walk
\* with its parse submissions and Delete commands, and the ProjectState.
\* `disk` holds the files of the project's first worktree; the files of
\* further worktrees are not part of this model.
AddProjectPass ==
    /\ ap.pc = "await"
    /\ \A i \in DOMAIN ap.replies : ap.replies[i] # <<>>
    /\ LET worktree   == project_worktrees[1]
           db_id      == ap.replies[1][1]
           file_mtimes == get_file_mtimes(db_files, db_id)
           submits    == WalkSubmits(disk, file_mtimes, db_id)
           leftover   == WalkLeftOver(disk, file_mtimes)
       IN  /\ parsing_files' = parsing_files \o submits
           /\ \E order \in Orders(leftover) :
                 db_update' = db_update \o
                     [i \in DOMAIN order |->
                         [kind |-> "Delete", worktree_id |-> db_id,
                          path |-> order[i]]]
           /\ project_state' =
                 <<[worktree_db_ids |-> ZipWorktrees(project_worktrees, ap.replies),
                    pending_files   |-> {}]>>
           /\ hist' = [hist EXCEPT
                 !.passes         = IF hist.passes < 2 THEN hist.passes + 1 ELSE 2,
                 !.pass_unchanged = ~hist.fs_changed,
                 !.pass_idle      = hist.call_idle /\ WorkersIdle,
                 !.pass_submitted = {submits[i].relative_path : i \in DOMAIN submits},
                 !.pass_deleted   = leftover,
                 !.fs_changed     = FALSE,
                 !.absent         = {p \in Paths : ~disk[p].exists}]
    /\ ap' = [ap EXCEPT !.pc = "idle", !.replies = <<>>]
    /\ UNCHANGED <<now, disk, project_worktrees, parse_workers, batch_files,
                   embeddings_queue, queue_len, embed_batch, embed_alive,
                   db_worktrees, db_files, search, tasks>>

----------------------------------------------------------------------------
(* ProjectState and the change callback *)

\* A variant of update_pending_files that takes the new indexing time for a
\* path that is pending; C23 does not hold of it.
update_pending_files_restart(pending_files, pending_file, indexing_time) ==
    {e \in pending_files : e.key # pending_file.relative_path}
        \cup {[key           |-> pending_file.relative_path,
               file          |-> pending_file,
               indexing_time |-> indexing_time]}

\* ProjectState::update_pending_files. pending_files is a set of entries
\* [key, file, indexing_time]; remove(key) takes every entry of the key out.
update_pending_files(pending_files, pending_file, indexing_time) ==
    LET old == {e \in pending_files : e.key = pending_file.relative_path}
    IN  IF old # {}
        THEN (pending_files \ old)
                \cup {[key           |-> pending_file.relative_path,
                       file          |-> pending_file,
                       indexing_time |-> (CHOOSE e \in old : TRUE).indexing_time]}
        ELSE pending_files
                \cup {[key           |-> pending_file.relative_path,
                       file          |-> pending_file,
                       indexing_time |-> indexing_time]}

\* A variant of Outstanding with index_time < now; C24 does not hold of it.
OutstandingBefore(pending_files, time) ==
    {e \in pending_files : e.indexing_time < time}

\* The entries get_outstanding_files returns and removes.
Outstanding(pending_files, time) ==
    {e \in pending_files : e.indexing_time <= time}

\* ProjectState::get_outstanding_files: the files it returns, in the order
\* `order` in which the keys of the map are iterated, and the map it leaves.
get_outstanding_files(pending_files, time, order) ==
    LET out  == Outstanding(pending_files, time)
        keys == SelectSeq(order, LAMBDA p : \E e \in out : e.key = p)
    IN  [files   |-> [i \in DOMAIN keys |->
                        (CHOOSE e \in out : e.key = keys[i]).file],
         pending |-> pending_files \ out]

\* already_stored as the callback computes it: there is a stored mtime and
\* it differs from the file's mtime.
CallbackAlreadyStored(file_mtimes, path, modified_time) ==
    path \in DOMAIN file_mtimes /\ modified_time # file_mtimes[path]

\* The callback's loop over the changes of one event, from change k on.
\* st = [pending, sent, bursts, submits]: pending_files, the files sent to
\* the parse queue, and the history counters of new entries and submissions.
\* The callback goes on to the next change: the entry is ignored or a
\* symlink, or the language of the path has no embedding configuration.
CallbackSkips(path) ==
    \/ IsIgnored(path)
    \/ IsSymlink(path)
    \/ ~HasEmbeddingConfig(path)

RECURSIVE HandleChanges(_, _, _, _, _, _)
HandleChanges(changes, k, st, file_mtimes, worktree_db_id, order) ==
    IF k > Len(changes) THEN st
    ELSE
      LET change_path == changes[k]
          \* change_path.metadata(): the relative path is resolved from the
          \* process's working directory, taken to be the worktree's root.
          file        == disk[change_path]
      IN  IF \/ CallbackSkips(change_path)
             \/ ~file.exists
             \/ CallbackAlreadyStored(file_mtimes, change_path, file.mtime)
          THEN HandleChanges(changes, k + 1, st, file_mtimes, worktree_db_id, order)
          ELSE
            LET reindex_time == file.mtime + REINDEXING_DELAY_SECONDS
                fresh   == ~\E e \in st.pending : e.key = change_path
                updated == update_pending_files(st.pending,
                               PendingFile(worktree_db_id, change_path, file.mtime),
                               reindex_time)
                drained == get_outstanding_files(updated, now, order)
                st2 == [pending |-> drained.pending,
                        sent    |-> st.sent \o drained.files,
                        bursts  |-> IF fresh
                                    THEN [st.bursts EXCEPT ![change_path] = @ + 1]
                                    ELSE st.bursts,
                        submits |-> [p \in Paths |->
                                       st.submits[p] + Cardinality(
                                         {i \in DOMAIN drained.files :
                                            drained.files[i].relative_path = p})]]
            IN  HandleChanges(changes, k + 1, st2, file_mtimes, worktree_db_id, order)

ChangeLists == UNION {[1..n -> Paths] : n \in 1..MaxChanges}

\* The subscription callback on project::Event::WorktreeUpdatedEntries for
\* the project's worktree, with the list `changes` of changed paths.
ChangeCallback(changes) ==
    /\ ~tasks.dropped
    /\ project_state # <<>>
    /\ hist.notifications < MaxNotifications
    /\ LET state == project_state[1]
           ids   == {state.worktree_db_ids[i][2] :
                        i \in {j \in DOMAIN state.worktree_db_ids :
                                  state.worktree_db_ids[j][1] = project_worktrees[1].id}}
       IN  IF ids = {}
           THEN UNCHANGED <<project_state, parsing_files, hist>>
           ELSE \E worktree_db_id \in ids, order \in Orders(Paths) :
                  LET r == HandleChanges(changes, 1,
                               [pending |-> state.pending_files,
                                sent    |-> <<>>,
                                bursts  |-> hist.cb_bursts,
                                submits |-> hist.cb_submits],
                               get_file_mtimes(db_files, worktree_db_id),
                               worktree_db_id, order)
                  IN  /\ project_state' =
                            <<[state EXCEPT !.pending_files = r.pending]>>
                      /\ parsing_files' = parsing_files \o r.sent
                      /\ hist' = [hist EXCEPT
                            !.notifications = @ + 1,
                            !.cb_bursts     = r.bursts,
                            !.cb_submits    = r.submits,
                            !.cb_last       = Range(changes),
                            !.cb_others     =
                                {r.sent[i].relative_path : i \in DOMAIN r.sent}
                                    \ Range(changes),
                            !.cb_gone       = @ \cup
                                {p \in Range(changes) :
                                    /\ ~disk[p].exists
                                    /\ RowsOf(db_files, worktree_db_id, p) # {}}]
    /\ UNCHANGED <<now, disk, project_worktrees, ap, parse_workers, batch_files,
                   embeddings_queue, queue_len, embed_batch, embed_alive,
                   db_update, db_worktrees, db_files, search, tasks>>

----------------------------------------------------------------------------
(* The parse workers *)

\* while let Ok(pending_file) = parsing_files_rx.recv().await
ParseRecv(w) ==
    /\ parse_workers[w] = <<>>
    /\ parsing_files # <<>>
    /\ parse_workers' = [parse_workers EXCEPT ![w] = <<Head(parsing_files)>>]
    /\ parsing_files' = Tail(parsing_files)
    /\ UNCHANGED <<now, disk, project_worktrees, project_state, ap, batch_files,
                   embeddings_queue, queue_len, embed_batch, embed_alive,
                   db_update, db_worktrees, db_files, search, hist, tasks>>

\* The mtime index_file puts into the IndexedFile.
IndexedMtime(pending_file, file) == pending_file.modified_time

\* index_file on the content that fs.load returns: one Document with an empty
\* embedding and one context span per fragment. content_mtime is not a field
\* of the source: it records the mtime the file had when it was read.
index_file(pending_file, file) ==
    [indexed_file |->
        [path          |-> pending_file.relative_path,
         mtime         |-> IndexedMtime(pending_file, file),
         documents     |-> [i \in 1..file.frags |->
                               [offset |-> i, name |-> i, embedding |-> <<>>]],
         content_mtime |-> file.mtime],
     context_spans |->
        [i \in 1..file.frags |->
            SpanText(pending_file.relative_path, file.mtime, i)]]

\* A variant of ParseSends that sends an item without documents for a file
\* that cannot be read; C27 does not hold of it.
ParseSendsAlways(pending_file, file) ==
    LET r == index_file(pending_file, file)
    IN  <<[worktree_id   |-> pending_file.worktree_db_id,
           indexed_file  |-> r.indexed_file,
           context_spans |-> r.context_spans]>>

\* What the worker sends to the batch queue for a file: the indexed file, or
\* nothing when index_file is Err (logged by log_err).
ParseSends(pending_file, file) ==
    IF file.exists
    THEN LET r == index_file(pending_file, file)
         IN  <<[worktree_id   |-> pending_file.worktree_db_id,
                indexed_file  |-> r.indexed_file,
                context_spans |-> r.context_spans]>>
    ELSE <<>>

\* The worker loads and indexes the file it holds and sends the result to the
\* batch queue; a file that cannot be read is logged and dropped.
\* hist.parse_dropped records the workers that have dropped a file.
ParseIndex(w) ==
    /\ parse_workers[w] # <<>>
    /\ LET pending_file == parse_workers[w][1]
           file         == disk[pending_file.relative_path]
       IN  /\ batch_files' = batch_files \o ParseSends(pending_file, file)
           /\ hist' = IF file.exists THEN hist
                      ELSE [hist EXCEPT !.parse_dropped = @ \cup {w}]
    /\ parse_workers' = [parse_workers EXCEPT ![w] = <<>>]
    /\ UNCHANGED <<now, disk, project_worktrees, project_state, ap,
                   parsing_files, embeddings_queue, queue_len, embed_batch,
                   embed_alive, db_update, db_worktrees, db_files, search, tasks>>

----------------------------------------------------------------------------
(* The batch accumulator *)

\* The accumulator emits when queue_len has reached the threshold.
\* A variant of BatchFull that emits only above the threshold; C15 does not
\* hold of it.
BatchFullAbove(len) == len > EMBEDDINGS_BATCH_SIZE

BatchFull(len) == len >= EMBEDDINGS_BATCH_SIZE

\* One iteration of the accumulator's loop.
BatchFilesRecv ==
    /\ batch_files # <<>>
    /\ LET item  == Head(batch_files)
           len   == queue_len + Len(item.context_spans)
           queue == Append(embeddings_queue, item)
       IN  IF BatchFull(len)
           THEN /\ embed_batch' = Append(embed_batch, queue)
                /\ embeddings_queue' = <<>>
                /\ queue_len' = 0
           ELSE /\ embed_batch' = embed_batch
                /\ embeddings_queue' = queue
                /\ queue_len' = len
    /\ batch_files' = Tail(batch_files)
    /\ UNCHANGED <<now, disk, project_worktrees, project_state, ap,
                   parsing_files, parse_workers, embed_alive, db_update,
                   db_worktrees, db_files, search, hist, tasks>>

----------------------------------------------------------------------------
(* The embedding provider (embedding.rs), from its documented contract *)

\* The vector of one text: fixed dimension, determined by the text.
ProviderVector(text) == <<text[2], text[3]>>

\* embed_batch(texts): an error, or one vector per text in order; a malformed
\* reply has one vector too few or one too many.
ProviderReplies(texts) ==
    LET full == [k \in DOMAIN texts |-> ProviderVector(texts[k])]
    IN  {[ok |-> FALSE, embeddings |-> <<>>],
         [ok |-> TRUE,  embeddings |-> full],
         [ok |-> TRUE,  embeddings |-> Append(full, <<0, 0>>)]}
        \cup (IF full = <<>> THEN {}
              ELSE {[ok |-> TRUE, embeddings |-> SubSeq(full, 1, Len(full) - 1)]})

----------------------------------------------------------------------------
(* The embed worker *)

\* A variant of Distribute whose document cursor j is not reset when the item
\* cursor i advances; C17 does not hold of it.
RECURSIVE DistributeKeepJ(_, _, _, _, _)
DistributeKeepJ(queue, embeddings, k, i, j) ==
    IF k > Len(embeddings)
    THEN [panic |-> FALSE, queue |-> queue]
    ELSE IF i > Len(queue)
    THEN [panic |-> TRUE, queue |-> queue]
    ELSE IF Len(queue[i].indexed_file.documents) = j
    THEN DistributeKeepJ(queue, embeddings, k, i + 1, j)
    ELSE IF j + 1 > Len(queue[i].indexed_file.documents)
    THEN [panic |-> TRUE, queue |-> queue]
    ELSE DistributeKeepJ(
            [queue EXCEPT ![i].indexed_file.documents[j + 1].embedding =
                              embeddings[k]],
            embeddings, k + 1, i, j + 1)

\* Distribution of the returned vectors over the documents of the batch, from
\* vector k on, with the source's cursor (i, j) (here counted from 1 and 0).
\* panic: embeddings_queue[i] is indexed past the end of the batch.
RECURSIVE Distribute(_, _, _, _, _)
Distribute(queue, embeddings, k, i, j) ==
    IF k > Len(embeddings)
    THEN [panic |-> FALSE, queue |-> queue]
    ELSE IF i > Len(queue)
    THEN [panic |-> TRUE, queue |-> queue]
    ELSE IF Len(queue[i].indexed_file.documents) = j
    THEN Distribute(queue, embeddings, k, i + 1, 0)
    ELSE Distribute(
            [queue EXCEPT ![i].indexed_file.documents[j + 1].embedding =
                              embeddings[k]],
            embeddings, k + 1, i, j + 1)

\* A variant of EmbeddingComplete without the assertion; C9 does not hold
\* of it.
EmbeddingCompleteUnchecked(item) == TRUE

\* assert!(document.embedding.len() > 0) over the documents of one item.
EmbeddingComplete(item) ==
    \A d \in DOMAIN item.indexed_file.documents :
        Len(item.indexed_file.documents[d].embedding) > 0

\* The number of items of the batch for which InsertFile is sent: the loop
\* stops at the first item whose assertion fails.
RECURSIVE SentItems(_, _)
SentItems(queue, n) ==
    IF n = Len(queue) THEN n
    ELSE IF EmbeddingComplete(queue[n + 1]) THEN SentItems(queue, n + 1)
    ELSE n

InsertFileOf(item) ==
    [kind         |-> "InsertFile",
     worktree_id  |-> item.worktree_id,
     indexed_file |-> item.indexed_file]

\* The texts sent to the provider for a batch: the spans of its items in
\* order.
DocumentSpans(batch) ==
    Flatten([i \in DOMAIN batch |-> batch[i].context_spans])

\* A variant of EmbedResult that unwraps the provider's reply: the worker
\* ends on an error. C18 does not hold of it.
EmbedResultUnwrap(batch, reply) ==
    IF ~reply.ok
    THEN [sent |-> <<>>, alive |-> FALSE]
    ELSE LET d == Distribute(batch, reply.embeddings, 1, 1, 0)
             n == IF d.panic THEN 0 ELSE SentItems(d.queue, 0)
         IN  [sent  |-> [i \in 1..n |-> InsertFileOf(d.queue[i])],
              alive |-> ~d.panic /\ n = Len(batch)]

\* What the worker does with the provider's reply for a batch: the commands
\* it sends to the DB writer, and whether it is still running afterwards.
EmbedResult(batch, reply) ==
    IF ~reply.ok
    THEN [sent |-> <<>>, alive |-> TRUE]
    ELSE LET d == Distribute(batch, reply.embeddings, 1, 1, 0)
             n == IF d.panic THEN 0 ELSE SentItems(d.queue, 0)
         IN  [sent  |-> [i \in 1..n |-> InsertFileOf(d.queue[i])],
              alive |-> ~d.panic /\ n = Len(batch)]

\* One iteration of the embed worker's loop on the batch it receives, with
\* `reply` the provider's reply.
EmbedBatchStep(reply) ==
    /\ embed_alive
    /\ embed_batch # <<>>
    /\ LET r == EmbedResult(Head(embed_batch), reply)
       IN  /\ db_update' = db_update \o r.sent
           /\ embed_alive' = r.alive
    /\ embed_batch' = Tail(embed_batch)
    /\ UNCHANGED <<now, disk, project_worktrees, project_state, ap,
                   parsing_files, parse_workers, batch_files, embeddings_queue,
                   queue_len, db_worktrees, db_files, search, hist, tasks>>

EmbedBatchRecv ==
    /\ embed_batch # <<>>
    /\ \E reply \in ProviderReplies(DocumentSpans(Head(embed_batch))) :
          EmbedBatchStep(reply)

----------------------------------------------------------------------------
(* The DB writer *)

\* A variant of DbWrite that drops Delete commands; C10 does not hold of it.
DbWriteInsertOnly(files, job) ==
    IF job.kind = "InsertFile"
    THEN insert_file(files, job.worktree_id, job.indexed_file)
    ELSE files

\* A variant of DbUpdateTask that takes the command enqueued last; C21 does
\* not hold of it.
DbUpdateTaskNewestFirst ==
    /\ db_update # <<>>
    /\ LET job == db_update[Len(db_update)]
       IN  IF job.kind = "FindOrCreateWorktree"
           THEN /\ db_worktrees' = find_or_create_worktree(db_worktrees, job.path)
                /\ ap' = IF ap.pc = "await"
                         THEN [ap EXCEPT !.replies[job.sender] =
                                  <<WorktreeIdOf(db_worktrees, job.path)>>]
                         ELSE ap
                /\ UNCHANGED <<db_files, hist>>
           ELSE /\ db_files' = (CASE job.kind = "InsertFile" ->
                                    insert_file(db_files, job.worktree_id,
                                                job.indexed_file)
                                  [] OTHER ->
                                    delete_file(db_files, job.worktree_id,
                                                job.path))
                /\ UNCHANGED <<db_worktrees, ap, hist>>
    /\ db_update' = SubSeq(db_update, 1, Len(db_update) - 1)
    /\ UNCHANGED <<now, disk, project_worktrees, project_state, parsing_files,
                   parse_workers, batch_files, embeddings_queue, queue_len,
                   embed_batch, embed_alive, search, tasks>>

\* The database after the writer has run a job's insert_file or delete_file.
DbWrite(files, job) ==
    CASE job.kind = "InsertFile" ->
            insert_file(files, job.worktree_id, job.indexed_file)
      [] job.kind = "Delete" ->
            delete_file(files, job.worktree_id, job.path)
      [] OTHER -> files

\* History: the InsertFile applied last for each key, if no Delete followed.
Applied(last, job) ==
    LET key  == IF job.kind = "InsertFile" THEN job.indexed_file.path
                ELSE job.path
        rest == {t \in last : ~(t.worktree_id = job.worktree_id /\ t.path = key)}
    IN  IF job.kind = "InsertFile"
        THEN rest \cup {[worktree_id |-> job.worktree_id, path |-> key,
                         indexed_file |-> job.indexed_file]}
        ELSE rest

\* History: the job is an InsertFile of a key that has a row.
Replaces(files, job) ==
    /\ job.kind = "InsertFile"
    /\ RowsOf(files, job.worktree_id, job.indexed_file.path) # {}

\* History: the job is a Delete of a key that has a row.
Removes(files, job) ==
    /\ job.kind = "Delete"
    /\ RowsOf(files, job.worktree_id, job.path) # {}

\* One iteration of the DB writer's loop. A failing insert_file or
\* delete_file is logged and leaves the database as it was.
DbUpdateTask ==
    /\ db_update # <<>>
    /\ LET job == Head(db_update)
       IN  IF job.kind = "FindOrCreateWorktree"
           THEN /\ db_worktrees' = find_or_create_worktree(db_worktrees, job.path)
                /\ ap' = IF ap.pc = "await"
                         THEN [ap EXCEPT !.replies[job.sender] =
                                  <<WorktreeIdOf(db_worktrees, job.path)>>]
                         ELSE ap
                /\ UNCHANGED <<db_files, hist>>
           ELSE /\ \E ok \in BOOLEAN :
                     IF ok
                     THEN /\ db_files' = DbWrite(db_files, job)
                          /\ hist' = [hist EXCEPT
                                !.last_applied = Applied(hist.last_applied, job),
                                !.replaced = @ \/ Replaces(db_files, job),
                                !.removed  = @ \/ Removes(db_files, job),
                                !.after_failure = @ \/ hist.write_failed]
                     ELSE /\ db_files' = db_files
                          /\ hist' = [hist EXCEPT !.write_failed = TRUE]
                /\ UNCHANGED <<db_worktrees, ap>>
    /\ db_update' = Tail(db_update)
    /\ UNCHANGED <<now, disk, project_worktrees, project_state, parsing_files,
                   parse_workers, batch_files, embeddings_queue, queue_len,
                   embed_batch, embed_alive, search, tasks>>

----------------------------------------------------------------------------
(* Dropping the VectorStore: the channels close and the tasks end *)

\* Every Sender of parsing_files is gone: the handle's, and the clones an
\* add_project under way holds.
ParsingFilesClosed == tasks.dropped /\ ap.pc = "idle"

\* A variant of BatchFilesClosed for a Sender of batch_files that outlives
\* the parse workers; C13 does not hold of it.
BatchFilesNeverClosed == FALSE

\* Every Sender of batch_files is gone: each parse worker holds one.
BatchFilesClosed == \A w \in DOMAIN tasks.parse : ~tasks.parse[w]

\* The Sender of embed_batch is gone: the accumulator holds it.
EmbedBatchClosed == ~tasks.batch

\* Every Sender of db_update is gone: the handle's, the embed worker's and
\* the clones an add_project under way holds.
DbUpdateClosed ==
    /\ tasks.dropped
    /\ ap.pc = "idle"
    /\ ~(tasks.embed /\ embed_alive)

\* The VectorStore is dropped, and with it its two Senders.
DropHandle ==
    /\ ~tasks.dropped
    /\ tasks' = [tasks EXCEPT !.dropped = TRUE]
    /\ UNCHANGED <<now, disk, project_worktrees, project_state, ap,
                   parsing_files, parse_workers, batch_files, embeddings_queue,
                   queue_len, embed_batch, embed_alive, db_update,
                   db_worktrees, db_files, search, hist>>

\* parsing_files_rx.recv() is Err (closed and empty): the parse worker ends.
ParseExit(w) ==
    /\ tasks.parse[w]
    /\ parse_workers[w] = <<>>
    /\ parsing_files = <<>>
    /\ ParsingFilesClosed
    /\ tasks' = [tasks EXCEPT !.parse[w] = FALSE]
    /\ UNCHANGED <<now, disk, project_worktrees, project_state, ap,
                   parsing_files, parse_workers, batch_files, embeddings_queue,
                   queue_len, embed_batch, embed_alive, db_update,
                   db_worktrees, db_files, search, hist>>

\* The batch the accumulator sends when its loop is over: the accumulated
\* items, if queue_len > 0.
FinalBatch(queue, len) == IF len > 0 THEN <<queue>> ELSE <<>>

\* batch_files_rx.recv() is Err: the accumulator leaves its loop, sends what
\* the final test lets it send, and ends. embeddings_queue keeps the items
\* that were not sent.
BatchFilesExit ==
    /\ tasks.batch
    /\ batch_files = <<>>
    /\ BatchFilesClosed
    /\ LET final == FinalBatch(embeddings_queue, queue_len)
       IN  /\ embed_batch' = embed_batch \o final
           /\ embeddings_queue' = IF final = <<>> THEN embeddings_queue ELSE <<>>
    /\ tasks' = [tasks EXCEPT !.batch = FALSE]
    /\ UNCHANGED <<now, disk, project_worktrees, project_state, ap,
                   parsing_files, parse_workers, batch_files, queue_len,
                   embed_alive, db_update, db_worktrees, db_files, search,
                   hist>>

\* embed_batch_rx.recv() is Err: the embed worker ends.
EmbedBatchExit ==
    /\ tasks.embed
    /\ embed_alive
    /\ embed_batch = <<>>
    /\ EmbedBatchClosed
    /\ tasks' = [tasks EXCEPT !.embed = FALSE]
    /\ UNCHANGED <<now, disk, project_worktrees, project_state, ap,
                   parsing_files, parse_workers, batch_files, embeddings_queue,
                   queue_len, embed_batch, embed_alive, db_update,
                   db_worktrees, db_files, search, hist>>

\* db_update_rx.recv() is Err: the DB writer ends.
DbUpdateExit ==
    /\ tasks.db
    /\ db_update = <<>>
    /\ DbUpdateClosed
    /\ tasks' = [tasks EXCEPT !.db = FALSE]
    /\ UNCHANGED <<now, disk, project_worktrees, project_state, ap,
                   parsing_files, parse_workers, batch_files, embeddings_queue,
                   queue_len, embed_batch, embed_alive, db_update,
                   db_worktrees, db_files, search, hist>>

\* A step of a task of the pipeline, or of an add_project under way.
TaskStep ==
    \/ AddProjectPass
    \/ \E w \in 1..NumParseWorkers : ParseRecv(w)
    \/ \E w \in 1..NumParseWorkers : ParseIndex(w)
    \/ \E w \in 1..NumParseWorkers : ParseExit(w)
    \/ BatchFilesRecv
    \/ BatchFilesExit
    \/ EmbedBatchRecv
    \/ EmbedBatchExit
    \/ DbUpdateTask
    \/ DbUpdateExit

\* No task is left: each has ended, the embed worker possibly by its panic.
AllTerminated ==
    /\ \A w \in DOMAIN tasks.parse : ~tasks.parse[w]
    /\ ~tasks.batch
    /\ ~(tasks.embed /\ embed_alive)
    /\ ~tasks.db

----------------------------------------------------------------------------
(* search *)

\* The documents of the database, each with the id of its row.
Documents(files) ==
    UNION {{[id          |-> <<r.worktree_id, r.relative_path, i>>,
             worktree_id |-> r.worktree_id,
             file_path   |-> r.relative_path,
             offset      |-> r.documents[i].offset,
             name        |-> r.documents[i].name,
             embedding   |-> r.documents[i].embedding] :
                i \in DOMAIN r.documents} : r \in files}

\* for_each_document(worktree_ids, f): the documents f is called with; the
\* order of the calls is unspecified.
for_each_document(files, worktree_ids) ==
    {d \in Documents(files) : d.worktree_id \in Range(worktree_ids)}

\* get_documents_by_ids(ids): (worktree_id, file_path, offset, name) of the
\* documents with these ids, in any order.
get_documents_by_ids(files, ids) ==
    LET found == {d \in Documents(files) : d.id \in Range(ids)}
    IN  {[i \in DOMAIN order |->
            <<order[i].worktree_id, order[i].file_path,
              order[i].offset, order[i].name>>] : order \in Orders(found)}

RECURSIVE DotFrom(_, _, _)
DotFrom(vec_a, vec_b, i) ==
    IF i > Len(vec_a) THEN 0
    ELSE vec_a[i] * vec_b[i] + DotFrom(vec_a, vec_b, i + 1)

\* dot(vec_a, vec_b), for vectors of one length (assert_eq! otherwise).
dot(vec_a, vec_b) == DotFrom(vec_a, vec_b, 1)

SearchIdle ==
    [pc |-> "idle", err |-> FALSE, limit |-> 0, phrase_embedding |-> <<>>,
     worktree_db_ids |-> <<>>, remaining |-> {}, results |-> <<>>,
     output |-> <<>>, embed_calls |-> 0, db_reads |-> 0]

\* The first db id that the pairs map the worktree id to (find_map).
FirstDbId(worktree_db_ids, worktree_id) ==
    LET hits == {j \in DOMAIN worktree_db_ids :
                    worktree_db_ids[j][1] = worktree_id}
    IN  IF hits = {} THEN <<>>
        ELSE <<worktree_db_ids[CHOOSE j \in hits : \A h \in hits : j <= h][2]>>

\* The first worktree id that the pairs map to the db id (find_map).
FirstWorktreeId(worktree_db_ids, db_id) ==
    LET hits == {j \in DOMAIN worktree_db_ids :
                    worktree_db_ids[j][2] = db_id}
    IN  IF hits = {} THEN <<>>
        ELSE <<worktree_db_ids[CHOOSE j \in hits : \A h \in hits : j <= h][1]>>

\* A variant of binary_search_by that always answers the front of the list;
\* C1 does not hold of it.
binary_search_by_front(results, similarity) == {0}

\* The 0-based indices binary_search_by may return (Ok or Err alike) with
\* the comparator similarity.partial_cmp(s): the index of any element of
\* equal score, or else the one insertion point of a descending list.
binary_search_by(results, similarity) ==
    LET equal == {ix \in 0..(Len(results) - 1) : results[ix + 1][2] = similarity}
    IN  IF equal # {} THEN equal
        ELSE {ix \in 0..Len(results) :
                /\ \A k \in 1..ix : results[k][2] > similarity
                /\ \A k \in (ix + 1)..Len(results) : results[k][2] < similarity}

\* results.insert(ix, (id, similarity)); results.truncate(limit).
InsertTruncate(results, ix, id, similarity, limit) ==
    LET inserted == SubSeq(results, 1, ix) \o <<<<id, similarity>>>>
                        \o SubSeq(results, ix + 1, Len(results))
    IN  SubSeq(inserted, 1, IF limit < Len(inserted) THEN limit ELSE Len(inserted))

\* A variant of SearchWorktreeDbIds that takes every db id of the project
\* state, whether its worktree is in the project or not; C3 does not hold
\* of it.
SearchWorktreeDbIdsOfState(worktrees, state) ==
    [j \in DOMAIN state.worktree_db_ids |-> state.worktree_db_ids[j][2]]

\* worktree_db_ids of search: for each worktree of the project, the db id
\* that the project state maps its id to, if any.
SearchWorktreeDbIds(worktrees, state) ==
    Flatten([i \in DOMAIN worktrees |->
                FirstDbId(state.worktree_db_ids, worktrees[i].id)])

\* The SearchResults built from the fetched documents: those whose
\* worktree_db_id the project state maps to a worktree id.
SearchResults(documents, state) ==
    LET kept == SelectSeq(documents,
                    LAMBDA d : FirstWorktreeId(state.worktree_db_ids, d[1]) # <<>>)
    IN  [i \in DOMAIN kept |->
            [worktree_id |-> FirstWorktreeId(state.worktree_db_ids, kept[i][1])[1],
             name        |-> kept[i][4],
             offset      |-> kept[i][3],
             file_path   |-> kept[i][2]]]

\* A variant of SearchStart that embeds the phrase before it looks the
\* project up; C14 does not hold of it.
SearchStartEmbedFirst(state, worktrees, files, limit, reply) ==
    IF reply = <<>> \/ state = <<>>
    THEN [SearchIdle EXCEPT !.pc = "done", !.err = TRUE, !.limit = limit,
                            !.embed_calls = 1]
    ELSE LET ids == SearchWorktreeDbIds(worktrees, state[1])
         IN  [SearchIdle EXCEPT
                !.pc = "stream",
                !.limit = limit,
                !.phrase_embedding = reply[1],
                !.worktree_db_ids = ids,
                !.remaining = for_each_document(files, ids),
                !.embed_calls = 1,
                !.db_reads = 1]

\* The search task after search(project, phrase, limit) has looked the
\* project up and, if it is there, embedded the phrase and opened the
\* stream of documents. `state` is <<>> for a project that was not added;
\* `reply` is the provider's reply, <<>> for an error. embed_calls and
\* db_reads count the calls of the provider and of the database.
SearchStart(state, worktrees, files, limit, reply) ==
    IF state = <<>>
    THEN [SearchIdle EXCEPT !.pc = "done", !.err = TRUE, !.limit = limit]
    ELSE IF reply = <<>>
    THEN [SearchIdle EXCEPT !.pc = "done", !.err = TRUE, !.limit = limit,
                            !.embed_calls = 1]
    ELSE LET ids == SearchWorktreeDbIds(worktrees, state[1])
         IN  [SearchIdle EXCEPT
                !.pc = "stream",
                !.limit = limit,
                !.phrase_embedding = reply[1],
                !.worktree_db_ids = ids,
                !.remaining = for_each_document(files, ids),
                !.embed_calls = 1,
                !.db_reads = 1]

\* search(project, phrase, limit) up to the embedding of the phrase; `reply`
\* is the provider's reply, <<>> for an error.
SearchCall(limit, reply) ==
    /\ ~tasks.dropped
    /\ search.pc = "idle"
    /\ search' = SearchStart(project_state, project_worktrees, db_files,
                             limit, reply)
    /\ UNCHANGED <<now, disk, project_worktrees, project_state, ap,
                   parsing_files, parse_workers, batch_files, embeddings_queue,
                   queue_len, embed_batch, embed_alive, db_update,
                   db_worktrees, db_files, hist, tasks>>

\* One call of the closure given to for_each_document.
SearchVisit ==
    /\ search.pc = "stream"
    /\ \E d \in search.remaining :
         IF Len(d.embedding) # Len(search.phrase_embedding)
         THEN search' = [search EXCEPT !.pc = "panic"]
         ELSE LET similarity == dot(d.embedding, search.phrase_embedding)
              IN  \E ix \in binary_search_by(search.results, similarity) :
                    search' = [search EXCEPT
                       !.remaining = @ \ {d},
                       !.results = InsertTruncate(search.results, ix, d.id,
                                                  similarity, search.limit)]
    /\ UNCHANGED <<now, disk, project_worktrees, project_state, ap,
                   parsing_files, parse_workers, batch_files, embeddings_queue,
                   queue_len, embed_batch, embed_alive, db_update,
                   db_worktrees, db_files, hist, tasks>>

\* The fetch of the rows of the ids kept, and the mapping to SearchResults.
SearchFetch ==
    /\ search.pc = "stream"
    /\ search.remaining = {}
    /\ LET ids == [i \in DOMAIN search.results |-> search.results[i][1]]
       IN  \E documents \in get_documents_by_ids(db_files, ids) :
              search' = [search EXCEPT
                 !.pc = "done",
                 !.db_reads = @ + 1,
                 !.output = IF project_state = <<>> THEN <<>>
                            ELSE SearchResults(documents, project_state[1]),
                 !.err = (project_state = <<>>)]
    /\ UNCHANGED <<now, disk, project_worktrees, project_state, ap,
                   parsing_files, parse_workers, batch_files, embeddings_queue,
                   queue_len, embed_batch, embed_alive, db_update,
                   db_worktrees, db_files, hist, tasks>>

----------------------------------------------------------------------------
(* The indexing pipeline with add_project and a changing worktree *)

HistInit ==
    [fs_changed     |-> FALSE,
     absent         |-> {},
     passes         |-> 0,
     pass_unchanged |-> FALSE,
     pass_idle      |-> FALSE,
     pass_submitted |-> {},
     pass_deleted   |-> {},
     last_applied   |-> {},
     write_failed   |-> FALSE,
     replaced       |-> FALSE,
     removed        |-> FALSE,
     call_idle      |-> FALSE,
     writes         |-> 0,
     notifications  |-> 0,
     cb_bursts      |-> [p \in Paths |-> 0],
     cb_submits     |-> [p \in Paths |-> 0],
     cb_last        |-> {},
     cb_gone        |-> {},
     cb_others      |-> {},
     parse_dropped  |-> {},
     after_failure  |-> FALSE]


Init ==
    /\ now = 1
    /\ disk \in [Paths -> {NoFile} \cup
                    {[exists |-> TRUE, mtime |-> 1, frags |-> n] : n \in 0..MaxFrags}]
    /\ project_worktrees = <<[id |-> 1, abs_path |-> "/w1"]>>
    /\ project_state = <<>>
    /\ ap = [pc |-> "idle", calls |-> 0, replies |-> <<>>]
    /\ parsing_files = <<>>
    /\ parse_workers = [w \in 1..NumParseWorkers |-> <<>>]
    /\ batch_files = <<>>
    /\ embeddings_queue = <<>>
    /\ queue_len = 0
    /\ embed_batch = <<>>
    /\ embed_alive = TRUE
    /\ db_update = <<>>
    /\ db_worktrees = <<>>
    /\ db_files = {}
    /\ search = SearchIdle
    /\ tasks = TasksRunning
    /\ hist = HistInit

Next ==
    \/ \E p \in Paths, n \in 0..MaxFrags : FsWrite(p, n)
    \/ \E p \in Paths : FsRemove(p)
    \/ AddProjectCall
    \/ AddProjectPass
    \/ \E w \in 1..NumParseWorkers : ParseRecv(w)
    \/ \E w \in 1..NumParseWorkers : ParseIndex(w)
    \/ BatchFilesRecv
    \/ EmbedBatchRecv
    \/ DbUpdateTask

Spec == Init /\ [][Next]_vars

\* The same pipeline over a worktree whose files are not rewritten.
NextStatic ==
    \/ \E p \in Paths : FsRemove(p)
    \/ AddProjectCall
    \/ AddProjectPass
    \/ \E w \in 1..NumParseWorkers : ParseRecv(w)
    \/ \E w \in 1..NumParseWorkers : ParseIndex(w)
    \/ BatchFilesRecv
    \/ EmbedBatchRecv
    \/ DbUpdateTask

SpecStatic == Init /\ [][NextStatic]_vars

\* The pipeline and add_project, with the VectorStore dropped at any moment.
NextShutdown ==
    \/ AddProjectCall
    \/ DropHandle
    \/ TaskStep

SpecShutdown == Init /\ [][NextShutdown]_vars

----------------------------------------------------------------------------
(* The change callback over an attached project *)

\* A File row as a completed index of `path` as written at `mtime` leaves it.
StoredRow(worktree_id, path, mtime, frags) ==
    [worktree_id   |-> worktree_id,
     relative_path |-> path,
     mtime         |-> mtime,
     documents     |-> [i \in 1..frags |->
                           [offset |-> i, name |-> i,
                            embedding |-> ProviderVector(SpanText(path, mtime, i))]],
     content_mtime |-> mtime]

\* The project is attached; its worktree holds files written at time 1, each
\* of which may have been indexed before.
InitDebounce ==
    /\ now = 1
    /\ disk \in [Paths -> {NoFile, [exists |-> TRUE, mtime |-> 1, frags |-> 1]}]
    /\ project_worktrees = <<[id |-> 1, abs_path |-> "/w1"]>>
    /\ project_state = <<[worktree_db_ids |-> <<<<1, 1>>>>, pending_files |-> {}]>>
    /\ ap = [pc |-> "idle", calls |-> 1, replies |-> <<>>]
    /\ parsing_files = <<>>
    /\ parse_workers = [w \in 1..NumParseWorkers |-> <<>>]
    /\ batch_files = <<>>
    /\ embeddings_queue = <<>>
    /\ queue_len = 0
    /\ embed_batch = <<>>
    /\ embed_alive = TRUE
    /\ db_update = <<>>
    /\ db_worktrees = <<"/w1">>
    /\ \E stored \in SUBSET {p \in Paths : disk[p].exists} :
          db_files = {StoredRow(1, p, 1, 1) : p \in stored}
    /\ search = SearchIdle
    /\ tasks = TasksRunning
    /\ hist = [HistInit EXCEPT !.passes = 1]

NextDebounce ==
    \/ Tick
    \/ \E p \in Paths : FsWrite(p, 1)
    \/ \E p \in Paths : FsRemove(p)
    \/ \E changes \in ChangeLists : ChangeCallback(changes)

SpecDebounce == InitDebounce /\ [][NextDebounce]_vars

----------------------------------------------------------------------------
(* search over a populated database *)

\* The File row of lib.src in worktree `worktree_id`, holding one document
\* per embedding.
SearchRow(worktree_id, embeddings) ==
    [worktree_id   |-> worktree_id,
     relative_path |-> "lib.src",
     mtime         |-> 1,
     documents     |-> [i \in DOMAIN embeddings |->
                           [offset |-> i, name |-> i, embedding |-> embeddings[i]]],
     content_mtime |-> 1]

\* Ten documents with the embeddings [i, 0, 0, 0], i in 1..10.
BoundaryRow == SearchRow(1, [i \in 1..10 |-> <<i, 0, 0, 0>>])

\* The databases searched: the first worktree's file with up to MaxDocs
\* documents, the second worktree's and a third, foreign worktree's file
\* with one document or unindexed; or the ten documents alone.
SearchDatabases ==
    {{SearchRow(1, e)} \cup two \cup three :
        e \in UNION {[1..n -> EmbeddingValues] : n \in 0..MaxDocs},
        two \in {{}, {SearchRow(2, <<<<1, 1, 0, 0>>>>)}},
        three \in {{}, {SearchRow(3, <<<<1, 1, 0, 0>>>>)}}}
    \cup {{BoundaryRow}}

\* The project has worktree 11 (db id 1) and possibly worktree 12 (db id 2);
\* the project state, made by an earlier add_project, maps 11 and possibly
\* 12, or there is none: the project was not added.
InitSearch ==
    /\ now = 1
    /\ disk = [p \in Paths |-> NoFile]
    /\ project_worktrees \in
          {<<[id |-> 11, abs_path |-> "/w1"]>>,
           <<[id |-> 11, abs_path |-> "/w1"], [id |-> 12, abs_path |-> "/w2"]>>}
    /\ project_state \in
          {<<>>} \cup
          {<<[worktree_db_ids |-> pairs, pending_files |-> {}]>> :
              pairs \in {<<<<11, 1>>>>, <<<<11, 1>>, <<12, 2>>>>}}
    /\ ap = [pc |-> "idle", calls |-> 1, replies |-> <<>>]
    /\ parsing_files = <<>>
    /\ parse_workers = [w \in 1..NumParseWorkers |-> <<>>]
    /\ batch_files = <<>>
    /\ embeddings_queue = <<>>
    /\ queue_len = 0
    /\ embed_batch = <<>>
    /\ embed_alive = TRUE
    /\ db_update = <<>>
    /\ db_worktrees = <<"/w1", "/w2", "/w3">>
    /\ db_files \in SearchDatabases
    /\ search = SearchIdle
    /\ tasks = TasksRunning
    /\ hist = [HistInit EXCEPT !.passes = 1]

NextSearch ==
    \/ \E limit \in 0..MaxLimit, reply \in {<<>>} \cup {<<v>> : v \in PhraseEmbeddings} :
          SearchCall(limit, reply)
    \/ SearchVisit
    \/ SearchFetch

SpecSearch == InitSearch /\ [][NextSearch]_vars

----------------------------------------------------------------------------
(* Properties of search *)

SearchReturned == search.pc = "done" /\ ~search.err

\* The documents stored for the worktrees the search queries: the worktrees
\* of the project that the project state maps to a db id.
QueriedDocuments ==
    {d \in Documents(db_files) :
        \E i \in DOMAIN project_worktrees,
           j \in DOMAIN project_state[1].worktree_db_ids :
            /\ project_state[1].worktree_db_ids[j][1] = project_worktrees[i].id
            /\ project_state[1].worktree_db_ids[j][2] = d.worktree_id}

\* The stored documents that the SearchResult r describes.
DocumentsOfResult(r) ==
    {d \in Documents(db_files) :
        /\ d.file_path = r.file_path
        /\ d.offset = r.offset
        /\ d.name = r.name
        /\ \E j \in DOMAIN project_state[1].worktree_db_ids :
              /\ project_state[1].worktree_db_ids[j][1] = r.worktree_id
              /\ project_state[1].worktree_db_ids[j][2] = d.worktree_id}

ReturnedDocuments ==
    UNION {DocumentsOfResult(search.output[k]) : k \in DOMAIN search.output}

Score(d) == dot(d.embedding, search.phrase_embedding)

ScoreOfResult(r) == Score(CHOOSE d \in DocumentsOfResult(r) : TRUE)

\* C1: search returns exactly min(limit, D) of the D documents stored for
\* the queried worktrees, all different, and no document left out has a
\* strictly higher dot product with the phrase embedding than one returned.
C1_TopK ==
    SearchReturned =>
        /\ Len(search.output) =
              (IF search.limit < Cardinality(QueriedDocuments)
               THEN search.limit ELSE Cardinality(QueriedDocuments))
        /\ Cardinality(ReturnedDocuments) = Len(search.output)
        /\ ReturnedDocuments \subseteq QueriedDocuments
        /\ \A r \in ReturnedDocuments :
              \A d \in QueriedDocuments \ ReturnedDocuments : Score(d) <= Score(r)

\* C1 witness: a search has returned fewer documents than are stored for the
\* queried worktrees, leaving out one of a strictly lower score.
C1_Witness ==
    /\ SearchReturned
    /\ search.limit >= 1
    /\ \E r \in ReturnedDocuments :
          \E d \in QueriedDocuments \ ReturnedDocuments : Score(d) < Score(r)

\* C2: the list search returns is in descending order of similarity; for the
\* ten documents [i, 0, 0, 0], the query [1, 0, 0, 0] and limit 3 it is the
\* documents 10, 9, 8 in that order.
C2_Claim ==
    SearchReturned =>
        /\ \A i, j \in DOMAIN search.output :
              i < j => ScoreOfResult(search.output[i]) >= ScoreOfResult(search.output[j])
        /\ (/\ db_files = {BoundaryRow}
            /\ search.limit = 3
            /\ search.phrase_embedding = <<1, 0, 0, 0>>)
              => [k \in DOMAIN search.output |-> search.output[k].name] = <<10, 9, 8>>

\* C3: every SearchResult returned describes a document stored under a db id
\* that the project state maps to one of the project's worktrees, and
\* carries the id of that worktree.
C3_OwnWorktrees ==
    SearchReturned =>
        \A k \in DOMAIN search.output :
            /\ \E i \in DOMAIN project_worktrees :
                  project_worktrees[i].id = search.output[k].worktree_id
            /\ DocumentsOfResult(search.output[k]) # {}

\* C3 witness: a search has returned results while the database holds a
\* document of a worktree that is not the project's, of a score at least
\* that of a document returned.
C3_Witness ==
    /\ SearchReturned
    /\ search.output # <<>>
    /\ \E d \in Documents(db_files) \ QueriedDocuments :
          \E r \in ReturnedDocuments : Score(d) >= Score(r)

\* C14: search on a project that was not added ends at once with an error,
\* having called neither the provider nor the database, and leaves the
\* projects, the database and the queues as they were.
C14_NotAdded ==
    [][(search.pc = "idle" /\ search'.pc # "idle" /\ project_state = <<>>) =>
          /\ search'.pc = "done"
          /\ search'.err
          /\ search'.output = <<>>
          /\ search'.embed_calls = 0
          /\ search'.db_reads = 0
          /\ UNCHANGED <<project_state, project_worktrees, parsing_files,
                         batch_files, embed_batch, db_update, db_worktrees,
                         db_files, tasks>>]_vars

\* C14 witness: a search of a project that was not added is over, in a
\* database that holds documents.
C14_Witness ==
    /\ search.pc = "done"
    /\ search.err
    /\ project_state = <<>>
    /\ Documents(db_files) # {}

----------------------------------------------------------------------------
(* The batch accumulator over a queue of parsed files *)

\* The k-th item to arrive: the file as indexed at mtime k, with n fragments.
BatchItem(k, n) ==
    LET pending_file == PendingFile(1, PathOrder[1], k)
        r == index_file(pending_file, [exists |-> TRUE, mtime |-> k, frags |-> n])
    IN  [worktree_id   |-> pending_file.worktree_db_id,
         indexed_file  |-> r.indexed_file,
         context_spans |-> r.context_spans]

\* The parse workers have sent up to MaxBatchItems items, of 0..MaxFrags spans
\* each, and the accumulator has not run yet.
InitBatcher ==
    /\ now = 1
    /\ disk = [p \in Paths |-> NoFile]
    /\ project_worktrees = <<[id |-> 1, abs_path |-> "/w1"]>>
    /\ project_state = <<>>
    /\ ap = [pc |-> "idle", calls |-> 0, replies |-> <<>>]
    /\ parsing_files = <<>>
    /\ parse_workers = [w \in 1..NumParseWorkers |-> <<>>]
    /\ \E n \in 0..MaxBatchItems :
          \E frags \in [1..n -> 0..MaxFrags] :
             batch_files = [k \in 1..n |-> BatchItem(k, frags[k])]
    /\ embeddings_queue = <<>>
    /\ queue_len = 0
    /\ embed_batch = <<>>
    /\ embed_alive = TRUE
    /\ db_update = <<>>
    /\ db_worktrees = <<"/w1">>
    /\ db_files = {}
    /\ search = SearchIdle
    /\ tasks = TasksRunning
    /\ hist = HistInit

NextBatcher == BatchFilesRecv

SpecBatcher == InitBatcher /\ [][NextBatcher]_vars

----------------------------------------------------------------------------
(* Properties of the batch accumulator *)

\* The number of context spans of the items of `queue`.
Spans(queue) == Len(Flatten([i \in DOMAIN queue |-> queue[i].context_spans]))

\* The items in the order of their arrival: those emitted, then those
\* accumulated, then those not yet received.
ArrivalOrder == Flatten(embed_batch) \o embeddings_queue \o batch_files

\* C15: the accumulator emits exactly when the span total of what it holds
\* reaches the threshold: every emitted batch totals at least the threshold
\* and less than it before its last item, the accumulator is empty right
\* after an emission and below the threshold otherwise, and the emitted
\* batches followed by what is held and what is to come are the items in
\* arrival order, each once.
C15_Batches ==
    /\ [](\A i \in DOMAIN embed_batch :
            LET b == embed_batch[i]
            IN  /\ b # <<>>
                /\ Spans(b) >= EMBEDDINGS_BATCH_SIZE
                /\ Spans(SubSeq(b, 1, Len(b) - 1)) < EMBEDDINGS_BATCH_SIZE)
    /\ [](queue_len = Spans(embeddings_queue)
            /\ queue_len < EMBEDDINGS_BATCH_SIZE)
    /\ [](\A k \in DOMAIN ArrivalOrder :
             ArrivalOrder[k].indexed_file.mtime = k)
    /\ [][/\ ArrivalOrder' = ArrivalOrder
          /\ embed_batch' # embed_batch <=>
                queue_len + Len(Head(batch_files).context_spans)
                    >= EMBEDDINGS_BATCH_SIZE
          /\ embed_batch' # embed_batch =>
                /\ embeddings_queue' = <<>>
                /\ queue_len' = 0
                /\ Len(embed_batch') = Len(embed_batch) + 1]_vars

\* C15 witness: two batches were emitted, one of them holding an item
\* without spans, and the accumulator holds a later item.
C15_Witness ==
    /\ Len(embed_batch) = 2
    /\ \E i \in DOMAIN embed_batch :
          \E k \in DOMAIN embed_batch[i] :
             embed_batch[i][k].context_spans = <<>>
    /\ embeddings_queue # <<>>
    /\ batch_files = <<>>

----------------------------------------------------------------------------
(* The accumulator and the embed worker over a queue of parsed files *)

\* As InitBatcher, after the handle was dropped and the parse workers ended:
\* the batch queue is closed, so the accumulator flushes when it has drained
\* it.
InitEmbed ==
    /\ now = 1
    /\ disk = [p \in Paths |-> NoFile]
    /\ project_worktrees = <<[id |-> 1, abs_path |-> "/w1"]>>
    /\ project_state = <<>>
    /\ ap = [pc |-> "idle", calls |-> 0, replies |-> <<>>]
    /\ parsing_files = <<>>
    /\ parse_workers = [w \in 1..NumParseWorkers |-> <<>>]
    /\ \E n \in 0..MaxEmbedItems :
          \E frags \in [1..n -> 0..MaxFrags] :
             batch_files = [k \in 1..n |-> BatchItem(k, frags[k])]
    /\ embeddings_queue = <<>>
    /\ queue_len = 0
    /\ embed_batch = <<>>
    /\ embed_alive = TRUE
    /\ db_update = <<>>
    /\ db_worktrees = <<"/w1">>
    /\ db_files = {}
    /\ search = SearchIdle
    /\ tasks = [TasksRunning EXCEPT
                  !.dropped = TRUE,
                  !.parse = [w \in 1..NumParseWorkers |-> FALSE]]
    /\ hist = HistInit

NextEmbed == BatchFilesRecv \/ BatchFilesExit \/ EmbedBatchRecv

SpecEmbed == InitEmbed /\ [][NextEmbed]_vars

----------------------------------------------------------------------------
(* Properties of the embed worker *)

\* The number of documents of the items of `batch` before item i.
DocsBefore(batch, i) ==
    Len(Flatten([k \in 1..(i - 1) |-> batch[k].indexed_file.documents]))

\* The provider's replies to the batch at the head of the queue.
HeadReplies == ProviderReplies(DocumentSpans(Head(embed_batch)))

\* C17: when the provider returns as many vectors as the batch has spans,
\* the worker sends one InsertFile per item of the batch, in batch order,
\* each with the item's documents, and document j of item i carries the
\* vector at the flattened position of (i, j); items without documents,
\* wherever they stand in the batch, get their InsertFile too.
C17_Distribution ==
    [][(embed_alive /\ embed_batch # <<>>) =>
         \A reply \in HeadReplies :
            (/\ reply.ok
             /\ Len(reply.embeddings) = Len(DocumentSpans(Head(embed_batch)))
             /\ EmbedBatchStep(reply)) =>
                LET batch == Head(embed_batch)
                    base  == Len(db_update)
                IN  /\ embed_alive'
                    /\ Len(db_update') = base + Len(batch)
                    /\ SubSeq(db_update', 1, base) = db_update
                    /\ \A i \in DOMAIN batch :
                          LET job  == db_update'[base + i]
                              docs == batch[i].indexed_file.documents
                          IN  /\ job.kind = "InsertFile"
                              /\ job.worktree_id = batch[i].worktree_id
                              /\ job.indexed_file.path =
                                    batch[i].indexed_file.path
                              /\ job.indexed_file.mtime =
                                    batch[i].indexed_file.mtime
                              /\ DOMAIN job.indexed_file.documents =
                                    DOMAIN docs
                              /\ \A j \in DOMAIN docs :
                                    job.indexed_file.documents[j] =
                                       [docs[j] EXCEPT !.embedding =
                                           reply.embeddings[
                                               DocsBefore(batch, i) + j]]]_vars

\* C17 witness: the worker has sent the InsertFiles of a batch whose first
\* item, last item and an item in between have no documents, and whose
\* other items have documents, all with their vectors.
C17_Witness ==
    /\ embed_alive
    /\ embed_batch = <<>>
    /\ ~tasks.batch
    /\ Len(db_update) >= 5
    /\ db_update[1].indexed_file.documents = <<>>
    /\ db_update[Len(db_update)].indexed_file.documents = <<>>
    /\ \E i \in 2..(Len(db_update) - 1) :
          /\ db_update[i].indexed_file.documents = <<>>
          /\ db_update[i - 1].indexed_file.documents # <<>>
          /\ db_update[i + 1].indexed_file.documents # <<>>
    /\ \A i \in DOMAIN db_update :
          \A j \in DOMAIN db_update[i].indexed_file.documents :
             db_update[i].indexed_file.documents[j].embedding # <<>>

\* C18: when embed_batch fails, the batch is dropped: no InsertFile is sent,
\* the database is as it was, the batch is gone from the queue and is put
\* back nowhere, and the worker is still running, so that it receives the
\* next batch.
C18_ErrorDropsBatch ==
    /\ [][(/\ embed_alive
           /\ embed_batch # <<>>
           /\ EmbedBatchStep([ok |-> FALSE, embeddings |-> <<>>])) =>
              /\ db_update' = db_update
              /\ db_files' = db_files
              /\ embed_batch' = Tail(embed_batch)
              /\ UNCHANGED <<parsing_files, batch_files, embeddings_queue>>
              /\ embed_alive']_vars
    /\ []((embed_alive /\ embed_batch # <<>>) => ENABLED EmbedBatchRecv)

\* C18 witness: the batch of the first item was dropped and the worker has
\* sent the InsertFiles of a later batch.
C18_Witness ==
    /\ embed_alive
    /\ embed_batch = <<>>
    /\ ~tasks.batch
    /\ db_update # <<>>
    /\ db_update[1].indexed_file.mtime > 1

\* C19: when the provider returns fewer vectors than the batch has
\* documents, so that some document of the batch is left without an
\* embedding, the worker sends no InsertFile of that batch.
C19_Claim ==
    [][(embed_alive /\ embed_batch # <<>>) =>
         \A reply \in HeadReplies :
            (/\ reply.ok
             /\ Len(reply.embeddings) < Len(DocumentSpans(Head(embed_batch)))
             /\ EmbedBatchStep(reply)) =>
                db_update' = db_update]_vars

----------------------------------------------------------------------------
(* add_project over a worktree and a database left by earlier runs *)

WalkFiles == {NoFile} \cup {[exists |-> TRUE, mtime |-> t, frags |-> 1] : t \in 1..2}

\* The rows an earlier run can have left for `path`: none, or one, of the
\* file as written at time 1 or 2.
WalkRows(path) == {{}} \cup {{StoredRow(1, path, t, 1)} : t \in 1..2}

\* The worktree holds files written at time 1 or 2, among them possibly one
\* without embedding configuration; the database, which outlives the
\* process, holds rows of an earlier run, possibly of files that are gone,
\* were rewritten, or were indexed under another language configuration.
InitWalk ==
    /\ now = 1
    /\ disk \in [WalkPaths -> WalkFiles]
    /\ project_worktrees = <<[id |-> 1, abs_path |-> "/w1"]>>
    /\ project_state = <<>>
    /\ ap = [pc |-> "idle", calls |-> 0, replies |-> <<>>]
    /\ parsing_files = <<>>
    /\ parse_workers = [w \in 1..NumParseWorkers |-> <<>>]
    /\ batch_files = <<>>
    /\ embeddings_queue = <<>>
    /\ queue_len = 0
    /\ embed_batch = <<>>
    /\ embed_alive = TRUE
    /\ db_update = <<>>
    /\ db_worktrees = <<"/w1">>
    /\ \E rows \in [WalkPaths -> UNION {WalkRows(p) : p \in WalkPaths}] :
          /\ \A p \in WalkPaths : rows[p] \in WalkRows(p)
          /\ db_files = UNION {rows[p] : p \in WalkPaths}
    /\ search = SearchIdle
    /\ tasks = TasksRunning
    /\ hist = HistInit

NextWalk == AddProjectCall \/ DbUpdateTask \/ AddProjectPass

SpecWalk == InitWalk /\ [][NextWalk]_vars

----------------------------------------------------------------------------
(* Properties of add_project's walk *)

\* The paths of the messages that a step appends to a queue.
Appended(before, after, Path(_)) ==
    [i \in 1..(Len(after) - Len(before)) |-> Path(after[Len(before) + i])]

\* C20: one pass of add_project submits to the parse queue exactly the
\* walked files with an embedding configuration that have no stored mtime
\* or a stored mtime other than their mtime on disk, each once and with its
\* mtime on disk; it sends a Delete for exactly the stored paths that it did
\* not visit as such a file, each once; and no path gets both.
C20_Walk ==
    [][(ap.pc = "await" /\ ap'.pc = "idle") =>
         LET submitted == Appended(parsing_files, parsing_files',
                                   LAMBDA m : m.relative_path)
             commands  == SubSeq(db_update', Len(db_update) + 1,
                                 Len(db_update'))
             deleted   == Appended(db_update, db_update', LAMBDA m : m.path)
             visited   == {p \in DOMAIN disk :
                              disk[p].exists /\ p \in Paths}
             stored    == {r.relative_path : r \in db_files}
             stale     == {p \in visited :
                              \A r \in RowsOf(db_files, 1, p) :
                                 r.mtime # disk[p].mtime}
         IN  /\ Range(submitted) = stale
             /\ Len(submitted) = Cardinality(stale)
             /\ \A i \in 1..Len(submitted) :
                   parsing_files'[Len(parsing_files) + i].modified_time
                      = disk[submitted[i]].mtime
             /\ \A i \in DOMAIN commands : commands[i].kind = "Delete"
             /\ Range(deleted) = stored \ visited
             /\ Len(deleted) = Cardinality(stored \ visited)
             /\ Range(submitted) \cap Range(deleted) = {}]_vars

\* C20 witness: a pass has submitted a file whose stored mtime differs from
\* its mtime on disk, has left a file with an equal stored mtime alone, and
\* has sent a Delete for a stored path.
C20_Witness ==
    /\ ap.pc = "idle"
    /\ hist.passes = 1
    /\ db_update # <<>>
    /\ \E p \in hist.pass_submitted : RowsOf(db_files, 1, p) # {}
    /\ hist.pass_deleted # {}
    /\ \E p \in Paths : disk[p].exists /\ p \notin hist.pass_submitted

----------------------------------------------------------------------------
(* The pending files of an attached project, with the clock running *)

NextPending ==
    \/ Tick
    \/ \E p \in Paths : FsWrite(p, 1)
    \/ \E p \in Paths : hist.notifications < MaxPendingNotifications
                          /\ ChangeCallback(<<p>>)
    \/ \E w \in 1..NumParseWorkers : ParseRecv(w)

SpecPending == InitDebounce /\ [][NextPending]_vars

----------------------------------------------------------------------------
(* Properties of the pending files *)

\* The entries of pending_files.
Pending == project_state[1].pending_files

\* The entries of pending_files whose time has come.
Elapsed == {e \in Pending : e.indexing_time <= now}

C23_Coalesce ==
    /\ \A e1, e2 \in Pending : e1.key = e2.key => e1 = e2
    /\ \A path \in Paths, mtime \in 1..MaxClock,
          time \in 1..(MaxClock + REINDEXING_DELAY_SECONDS) :
          LET file == PendingFile(1, path, mtime)
              old  == {e \in Pending : e.key = path}
              new  == update_pending_files(Pending, file, time)
          IN  /\ {e \in new : e.key # path} = {e \in Pending : e.key # path}
              /\ {e \in new : e.key = path} =
                    {[key  |-> path,
                      file |-> file,
                      indexing_time |->
                         IF old = {} THEN time
                         ELSE (CHOOSE e \in old : TRUE).indexing_time]}

\* C23 witness: a pending entry holds a file that was written after the
\* file for which the entry was made, with the time of the entry's making.
C23_Witness ==
    \E e \in Pending :
       e.indexing_time < e.file.modified_time + REINDEXING_DELAY_SECONDS

\* A change notification on p is accepted: the file is there and
\* already_stored, as the callback computes it, is false.
Accepted(p) ==
    /\ disk[p].exists
    /\ ~CallbackAlreadyStored(get_file_mtimes(db_files, 1), p, disk[p].mtime)

\* C24: the step that handles an accepted change submits the files of
\* exactly the entries whose time has come, whatever their path and each
\* once, takes exactly these entries out of pending_files and leaves the
\* others as update_pending_files left them; no entry whose time has come
\* is pending afterwards.
C24_Drain ==
    [][\A p \in Paths :
          (ChangeCallback(<<p>>) /\ Accepted(p)) =>
             LET updated == update_pending_files(Pending,
                                PendingFile(1, p, disk[p].mtime),
                                disk[p].mtime + REINDEXING_DELAY_SECONDS)
                 due     == {e \in updated : e.indexing_time <= now}
                 sent    == SubSeq(parsing_files', Len(parsing_files) + 1,
                                   Len(parsing_files'))
             IN  /\ Range(sent) = {e.file : e \in due}
                 /\ Len(sent) = Cardinality(due)
                 /\ SubSeq(parsing_files', 1, Len(parsing_files))
                       = parsing_files
                 /\ project_state'[1].pending_files = updated \ due
                 /\ \A e \in project_state'[1].pending_files :
                       e.indexing_time > now]_vars

\* C24 witness: the callback has, for a change of one file, submitted an
\* entry of another file, and has left an entry whose time is to come.
C24_Witness ==
    /\ hist.cb_others # {}
    /\ \E e \in Pending : e.indexing_time > now

----------------------------------------------------------------------------
(* add_project and the change callback over files that are not to be indexed *)

\* The worktree holds a regular file and possibly a file without embedding
\* configuration, a symlink and an ignored file, all written at time 1; the
\* database is new.
InitEligible ==
    /\ now = 1
    /\ \E there \in SUBSET {PlainPath, LinkPath, IgnoredPath} :
          disk = [p \in Range(WalkOrder) |->
                    IF p = PathOrder[1] \/ p \in there
                    THEN [exists |-> TRUE, mtime |-> 1, frags |-> 1]
                    ELSE NoFile]
    /\ project_worktrees = <<[id |-> 1, abs_path |-> "/w1"]>>
    /\ project_state = <<>>
    /\ ap = [pc |-> "idle", calls |-> MaxAddProject - 1, replies |-> <<>>]
    /\ parsing_files = <<>>
    /\ parse_workers = [w \in 1..NumParseWorkers |-> <<>>]
    /\ batch_files = <<>>
    /\ embeddings_queue = <<>>
    /\ queue_len = 0
    /\ embed_batch = <<>>
    /\ embed_alive = TRUE
    /\ db_update = <<>>
    /\ db_worktrees = <<>>
    /\ db_files = {}
    /\ search = SearchIdle
    /\ tasks = TasksRunning
    /\ hist = HistInit

NextEligible ==
    \/ AddProjectCall
    \/ DbUpdateTask
    \/ AddProjectPass
    \/ \E p \in Range(WalkOrder) :
          hist.notifications < MaxPendingNotifications /\ ChangeCallback(<<p>>)
    \/ \E w \in 1..NumParseWorkers : ParseRecv(w)

SpecEligible == InitEligible /\ [][NextEligible]_vars

\* The files that are not to be indexed.
NotEligible(path) ==
    IsIgnored(path) \/ IsSymlink(path) \/ ~HasEmbeddingConfig(path)

\* C25: no file that is ignored, a symlink or without embedding
\* configuration is in the parse queue, with a parse worker, or pending.
C25_Claim ==
    /\ \A i \in DOMAIN parsing_files :
          ~NotEligible(parsing_files[i].relative_path)
    /\ \A w \in DOMAIN parse_workers :
          \A i \in DOMAIN parse_workers[w] :
             ~NotEligible(parse_workers[w][i].relative_path)
    /\ project_state # <<>> =>
          \A e \in project_state[1].pending_files : ~NotEligible(e.key)

----------------------------------------------------------------------------
(* Properties of a file without fragments *)

\* C26: a file in which the query matches nothing is not indexed: no
\* InsertFile without documents is sent to the DB writer, and the database
\* holds no File row without documents.
C26_Claim ==
    /\ \A i \in DOMAIN db_update :
          db_update[i].kind = "InsertFile" =>
             db_update[i].indexed_file.documents # <<>>
    /\ \A r \in db_files : r.documents # <<>>

----------------------------------------------------------------------------
(* The workers over a parse queue with files that cannot be read *)

\* Files written at time 1 were submitted to the parse queue, some of them
\* more than once, and some of them have disappeared since.
InitFailures ==
    /\ now = 1
    /\ disk \in [Paths -> {NoFile,
                            [exists |-> TRUE, mtime |-> 1, frags |-> MaxFrags]}]
    /\ project_worktrees = <<[id |-> 1, abs_path |-> "/w1"]>>
    /\ project_state = <<[worktree_db_ids |-> <<<<1, 1>>>>, pending_files |-> {}]>>
    /\ ap = [pc |-> "idle", calls |-> 1, replies |-> <<>>]
    /\ \E n \in 0..MaxParseItems :
          \E paths \in [1..n -> Paths] :
             parsing_files = [k \in 1..n |-> PendingFile(1, paths[k], 1)]
    /\ parse_workers = [w \in 1..NumParseWorkers |-> <<>>]
    /\ batch_files = <<>>
    /\ embeddings_queue = <<>>
    /\ queue_len = 0
    /\ embed_batch = <<>>
    /\ embed_alive = TRUE
    /\ db_update = <<>>
    /\ db_worktrees = <<"/w1">>
    /\ db_files = {}
    /\ search = SearchIdle
    /\ tasks = TasksRunning
    /\ hist = [HistInit EXCEPT !.passes = 1]

NextFailures ==
    \/ \E w \in 1..NumParseWorkers : ParseRecv(w)
    \/ \E w \in 1..NumParseWorkers : ParseIndex(w)
    \/ BatchFilesRecv
    \/ EmbedBatchRecv
    \/ DbUpdateTask

SpecFailures == InitFailures /\ [][NextFailures]_vars

----------------------------------------------------------------------------
(* Properties of the workers' failures *)

\* C27: a parse worker that cannot read its file sends nothing to the batch
\* queue and is at its recv again, where it receives the next file of the
\* parse queue; a DB writer whose insert_file or delete_file fails leaves
\* the database as it is, has taken the command out of the queue, and
\* goes on with the command behind it.
C27_Absorbed ==
    /\ [][\A w \in DOMAIN parse_workers :
            (/\ parse_workers[w] # <<>>
             /\ ~disk[parse_workers[w][1].relative_path].exists
             /\ parse_workers'[w] # parse_workers[w]) =>
                /\ batch_files' = batch_files
                /\ parse_workers'[w] = <<>>
                /\ parsing_files' = parsing_files]_vars
    /\ [](\A w \in DOMAIN parse_workers :
            (parse_workers[w] = <<>> /\ parsing_files # <<>>) =>
               ENABLED ParseRecv(w))
    /\ [][(~hist.write_failed /\ hist'.write_failed) =>
            /\ db_update # <<>>
            /\ db_update' = Tail(db_update)
            /\ db_files' = db_files
            /\ db_worktrees' = db_worktrees]_vars
    /\ [][Len(db_update') < Len(db_update) =>
            /\ db_update' = Tail(db_update)
            /\ db_files' \in {db_files, DbWrite(db_files, Head(db_update))}]_vars
    /\ [](db_update # <<>> => ENABLED DbUpdateTask)

\* C27 witness: a parse worker that dropped a file has received another
\* one, and the DB writer has applied a command after a failed one.
C27_Witness ==
    /\ \E w \in hist.parse_dropped : parse_workers[w] # <<>>
    /\ hist.write_failed
    /\ hist.after_failure

----------------------------------------------------------------------------
(* The workers over two versions of one file *)

\* A file was submitted to the parse queue as written at time 1 and, written
\* again, as written at time 2; nothing is stored yet.
InitVersions ==
    /\ now = 2
    /\ \E p \in Paths, n \in 1..MaxFrags :
          /\ disk = [q \in Paths |->
                       IF q = p
                       THEN [exists |-> TRUE, mtime |-> 2, frags |-> MaxFrags]
                       ELSE [exists |-> TRUE, mtime |-> 1, frags |-> n]]
          /\ parsing_files = <<PendingFile(1, p, 1), PendingFile(1, p, 2)>>
    /\ project_worktrees = <<[id |-> 1, abs_path |-> "/w1"]>>
    /\ project_state = <<[worktree_db_ids |-> <<<<1, 1>>>>, pending_files |-> {}]>>
    /\ ap = [pc |-> "idle", calls |-> 1, replies |-> <<>>]
    /\ parse_workers = [w \in 1..NumParseWorkers |-> <<>>]
    /\ batch_files = <<>>
    /\ embeddings_queue = <<>>
    /\ queue_len = 0
    /\ embed_batch = <<>>
    /\ embed_alive = TRUE
    /\ db_update = <<>>
    /\ db_worktrees = <<"/w1">>
    /\ db_files = {}
    /\ search = SearchIdle
    /\ tasks = TasksRunning
    /\ hist = [HistInit EXCEPT !.passes = 1]

SpecVersions == InitVersions /\ [][NextFailures]_vars

\* C28: when the workers have nothing left to do and no batch and no write
\* was lost, the row of the file that was submitted twice carries the mtime
\* of the second submission.
C28_Claim ==
    (WorkersIdle /\ embed_alive /\ ~hist.write_failed) =>
        \A r \in db_files : r.mtime = disk[r.relative_path].mtime

----------------------------------------------------------------------------
(* add_project for a project of two worktrees *)

\* The project has two worktrees; the database is new or knows one of them
\* or both.
InitWorktrees ==
    /\ now = 1
    /\ disk \in [Paths -> {NoFile, [exists |-> TRUE, mtime |-> 1, frags |-> 1]}]
    /\ project_worktrees = <<[id |-> 1, abs_path |-> "/w1"],
                             [id |-> 2, abs_path |-> "/w2"]>>
    /\ project_state = <<>>
    /\ ap = [pc |-> "idle", calls |-> 0, replies |-> <<>>]
    /\ parsing_files = <<>>
    /\ parse_workers = [w \in 1..NumParseWorkers |-> <<>>]
    /\ batch_files = <<>>
    /\ embeddings_queue = <<>>
    /\ queue_len = 0
    /\ embed_batch = <<>>
    /\ embed_alive = TRUE
    /\ db_update = <<>>
    /\ db_worktrees \in {<<>>, <<"/w1">>, <<"/w2">>, <<"/w2", "/w1">>}
    /\ db_files = {}
    /\ search = SearchIdle
    /\ tasks = TasksRunning
    /\ hist = HistInit

NextWorktrees ==
    \/ AddProjectCall
    \/ WorktreeRemoved
    \/ DbUpdateTask
    \/ AddProjectPass
    \/ \E w \in 1..NumParseWorkers : ParseRecv(w)

SpecWorktrees == InitWorktrees /\ [][NextWorktrees]_vars

\* C29: the ProjectState maps every worktree id to the db id of the row of
\* that worktree's absolute path, and every file submitted to the parse
\* queue carries the db id of the worktree it was walked in.
C29_Claim ==
    /\ project_state # <<>> =>
          \A k \in DOMAIN project_state[1].worktree_db_ids :
             LET pair == project_state[1].worktree_db_ids[k]
             IN  \A i \in DOMAIN project_worktrees :
                    project_worktrees[i].id = pair[1] =>
                       /\ pair[2] \in DOMAIN db_worktrees
                       /\ db_worktrees[pair[2]] = project_worktrees[i].abs_path
    /\ \A i \in DOMAIN parsing_files :
          /\ parsing_files[i].worktree_db_id \in DOMAIN db_worktrees
          /\ db_worktrees[parsing_files[i].worktree_db_id]
                = project_worktrees[1].abs_path

----------------------------------------------------------------------------
(* Every task that holds a database handle *)

\* The project was attached in an earlier add_project, and one call of
\* add_project is left. The worktree holds files written at time 1 that
\* together fill a batch; the database holds rows of an earlier index, of
\* these files or of one that is no longer in the worktree.
InitWriter ==
    /\ now = 1
    /\ \E n \in 1..MaxFrags :
          disk = [p \in Paths |->
                    [exists |-> TRUE, mtime |-> 1,
                     frags  |-> IF p = PathOrder[1] THEN MaxFrags ELSE n]]
    /\ project_worktrees = <<[id |-> 1, abs_path |-> "/w1"]>>
    /\ project_state = <<[worktree_db_ids |-> <<<<1, 1>>>>, pending_files |-> {}]>>
    /\ ap = [pc |-> "idle", calls |-> MaxAddProject - 1, replies |-> <<>>]
    /\ parsing_files = <<>>
    /\ parse_workers = [w \in 1..NumParseWorkers |-> <<>>]
    /\ batch_files = <<>>
    /\ embeddings_queue = <<>>
    /\ queue_len = 0
    /\ embed_batch = <<>>
    /\ embed_alive = TRUE
    /\ db_update = <<>>
    /\ db_worktrees = <<"/w1">>
    /\ \E stored \in SUBSET WalkPaths :
          db_files = {StoredRow(1, p, 1, 1) : p \in stored}
    /\ search = SearchIdle
    /\ tasks = TasksRunning
    /\ hist = [HistInit EXCEPT !.passes = 1]

\* add_project, the change callback, search and the pipeline's workers.
NextWriter ==
    \/ AddProjectCall
    \/ AddProjectPass
    \/ \E p \in Paths : hist.notifications < MaxWriterNotifications
                          /\ ChangeCallback(<<p>>)
    \/ \E reply \in {<<>>, <<ProviderVector(SpanText("q", 1, 1))>>} :
          SearchCall(1, reply)
    \/ SearchVisit
    \/ SearchFetch
    \/ \E w \in 1..NumParseWorkers : ParseRecv(w)
    \/ \E w \in 1..NumParseWorkers : ParseIndex(w)
    \/ BatchFilesRecv
    \/ EmbedBatchRecv
    \/ DbUpdateTask

SpecWriter == InitWriter /\ [][NextWriter]_vars

----------------------------------------------------------------------------
(* Properties of the database's writer *)

\* C21: the database changes only in a step that takes the command at the
\* head of the db-write queue, and then as that command's insert_file,
\* delete_file or find_or_create_worktree changes it (or not at all, when
\* the call fails); every other step of add_project, the change callback,
\* search and the workers leaves the database as it is and the commands
\* waiting in the queue in their order.
C21_SingleWriter ==
    [][\/ /\ db_files' = db_files
          /\ db_worktrees' = db_worktrees
          /\ Len(db_update') >= Len(db_update)
          /\ SubSeq(db_update', 1, Len(db_update)) = db_update
       \/ /\ db_update # <<>>
          /\ db_update' = Tail(db_update)
          /\ LET job == Head(db_update)
             IN  IF job.kind = "FindOrCreateWorktree"
                 THEN /\ db_worktrees' =
                            find_or_create_worktree(db_worktrees, job.path)
                      /\ db_files' = db_files
                 ELSE /\ db_worktrees' = db_worktrees
                      /\ db_files' \in {db_files, DbWrite(db_files, job)}]_vars

\* C21 witness: the writer has looked up the worktree, deleted the row of a
\* file and inserted another file, and has emptied its queue, with a change
\* notification handled and a search done in the meantime.
C21_Witness ==
    /\ db_update = <<>>
    /\ ap.calls = MaxAddProject
    /\ ap.pc = "idle"
    /\ hist.last_applied # {}
    /\ hist.removed
    /\ hist.notifications > 0
    /\ search.pc = "done"
    /\ ~search.err

----------------------------------------------------------------------------
(* The DB writer over a queue of commands *)

\* The files a command can insert: lib.src or mod.src, as written at time 1
\* with two documents or as written at time 2 with one.
CommandFiles ==
    {[path          |-> p,
      mtime         |-> t,
      documents     |-> [i \in 1..(3 - t) |->
                            [offset |-> i, name |-> i,
                             embedding |-> ProviderVector(SpanText(p, t, i))]],
      content_mtime |-> t] : p \in Paths, t \in 1..2}

Commands ==
    {[kind |-> "InsertFile", worktree_id |-> w, indexed_file |-> f] :
        w \in 1..2, f \in CommandFiles}
    \cup {[kind |-> "Delete", worktree_id |-> w, path |-> p] :
        w \in 1..2, p \in Paths}

InitDbWriter ==
    /\ now = 1
    /\ disk = [p \in Paths |-> NoFile]
    /\ project_worktrees = <<[id |-> 1, abs_path |-> "/w1"]>>
    /\ project_state = <<>>
    /\ ap = [pc |-> "idle", calls |-> 0, replies |-> <<>>]
    /\ parsing_files = <<>>
    /\ parse_workers = [w \in 1..NumParseWorkers |-> <<>>]
    /\ batch_files = <<>>
    /\ embeddings_queue = <<>>
    /\ queue_len = 0
    /\ embed_batch = <<>>
    /\ embed_alive = TRUE
    /\ db_update \in UNION {[1..n -> Commands] : n \in 0..MaxCommands}
    /\ db_worktrees = <<"/w1", "/w2">>
    /\ db_files = {}
    /\ search = SearchIdle
    /\ tasks = TasksRunning
    /\ hist = HistInit

NextDbWriter == DbUpdateTask

SpecDbWriter == InitDbWriter /\ [][NextDbWriter]_vars

----------------------------------------------------------------------------
(* Properties of the DB writer *)

\* C10: there is at most one File row per (worktree_db_id, relative_path),
\* and the rows are exactly those of the InsertFile applied last for each
\* key with no Delete applied after it, with the documents of that
\* InsertFile.
C10_LastInsertWins ==
    /\ \A r, q \in db_files :
          (r.worktree_id = q.worktree_id /\ r.relative_path = q.relative_path)
              => r = q
    /\ db_files = {[worktree_id   |-> t.worktree_id,
                    relative_path |-> t.path,
                    mtime         |-> t.indexed_file.mtime,
                    documents     |-> t.indexed_file.documents,
                    content_mtime |-> t.indexed_file.content_mtime] :
                        t \in hist.last_applied}

\* C10 witness: an InsertFile of a key that had a row and a Delete of a key
\* that had a row have been applied, and a row is left.
C10_Witness ==
    /\ db_update = <<>>
    /\ hist.replaced
    /\ hist.removed
    /\ db_files # {}

----------------------------------------------------------------------------
(* The change callback with the pipeline's workers running *)

\* The project is attached and its files, written at time 1, have been
\* left alone for REINDEXING_DELAY_SECONDS.
InitWatch ==
    /\ now = 1 + REINDEXING_DELAY_SECONDS
    /\ disk \in [Paths -> {NoFile, [exists |-> TRUE, mtime |-> 1, frags |-> 1]}]
    /\ project_worktrees = <<[id |-> 1, abs_path |-> "/w1"]>>
    /\ project_state = <<[worktree_db_ids |-> <<<<1, 1>>>>, pending_files |-> {}]>>
    /\ ap = [pc |-> "idle", calls |-> 1, replies |-> <<>>]
    /\ parsing_files = <<>>
    /\ parse_workers = [w \in 1..NumParseWorkers |-> <<>>]
    /\ batch_files = <<>>
    /\ embeddings_queue = <<>>
    /\ queue_len = 0
    /\ embed_batch = <<>>
    /\ embed_alive = TRUE
    /\ db_update = <<>>
    /\ db_worktrees = <<"/w1">>
    /\ \E stored \in SUBSET {p \in Paths : disk[p].exists} :
          db_files = {StoredRow(1, p, 1, 1) : p \in stored}
    /\ search = SearchIdle
    /\ tasks = TasksRunning
    /\ hist = [HistInit EXCEPT !.passes = 1]

\* The attached project with the pipeline's workers running; files
\* disappear, and each event carries one change.
NextWatch ==
    \/ \E p \in Paths : FsRemove(p)
    \/ \E p \in Paths : ChangeCallback(<<p>>)
    \/ \E w \in 1..NumParseWorkers : ParseRecv(w)
    \/ \E w \in 1..NumParseWorkers : ParseIndex(w)
    \/ BatchFilesRecv
    \/ EmbedBatchRecv
    \/ DbUpdateTask

SpecWatch == InitWatch /\ [][NextWatch]_vars

----------------------------------------------------------------------------
(* Properties of the debouncer *)

\* The bursts of change notifications on p whose reindex_at has elapsed:
\* every entry made for p, but one that is pending with its time still ahead.
ElapsedBursts(p) ==
    hist.cb_bursts[p]
        - Cardinality({e \in project_state[1].pending_files :
                          e.key = p /\ e.indexing_time > now})

\* C8: every burst of change notifications on a path has produced exactly
\* one parse submission for the path once its reindex_at has elapsed.
C8_Claim ==
    \A p \in Paths : hist.cb_submits[p] = ElapsedBursts(p)

\* The File row of p in the project's worktree is missing or stale: its
\* stored mtime differs from the mtime of the file on disk.
StaleOrUnstored(p) ==
    \A r \in RowsOf(db_files, 1, p) : r.mtime # disk[p].mtime

\* C11: a change notification that names an existing file whose File row is
\* stale, or which has no row, leaves the file in pending_files or submits
\* it to the parse queue.
C11_Claim ==
    [][hist'.notifications # hist.notifications =>
         \A p \in hist'.cb_last :
            (disk[p].exists /\ StaleOrUnstored(p)) =>
                \/ \E e \in project_state'[1].pending_files : e.key = p
                \/ hist'.cb_submits[p] > hist.cb_submits[p]]_vars

\* C12: once the callback has been notified of a path that has a File row
\* and is gone from the worktree, and the file has not been written again,
\* the row is gone when every worker has run out of work.
C12_Claim ==
    WorkersIdle => \A p \in hist.cb_gone : RowsOf(db_files, 1, p) = {}

----------------------------------------------------------------------------
(* Properties of the shutdown *)

\* C13: once the VectorStore is dropped, as long as a task is left some task
\* has a step to take, each step using up a message, an add_project or a
\* task: no task stays at a receive that can never return, and all four
\* kinds of task end.
C13_WorkersTerminate ==
    tasks.dropped => (AllTerminated \/ ENABLED TaskStep)

\* C13 witness: the handle has been dropped while a file was being parsed,
\* and every task has ended.
C13_Witness ==
    /\ tasks.dropped
    /\ AllTerminated
    /\ embed_alive
    /\ db_files # {}

\* C16: when the accumulator has ended, it has sent every item it had
\* accumulated.
C16_Claim ==
    ~tasks.batch => embeddings_queue = <<>>

----------------------------------------------------------------------------
(* Properties of the indexing pipeline *)

\* C4: every file that a parse worker has indexed is persisted without any
\* further file having to arrive: once no worker has a step left (and the
\* embed worker is alive), no indexed file is still waiting in the batch
\* accumulator for its InsertFile.
C4_Claim ==
    (PipelineIdle /\ embed_alive) => embeddings_queue = <<>>

\* C5: a second add_project with no on-disk change since the first one
\* (called and run while every queue was empty and every worker at its recv)
\* submits no file to the parse queue and sends no Delete.
C5_Claim ==
    (hist.passes = 2 /\ hist.pass_unchanged /\ hist.pass_idle)
        => (hist.pass_submitted = {} /\ hist.pass_deleted = {})

\* C6: a file that was absent from the worktree at the last add_project pass
\* (and has not been written since) has no File row once everything in
\* flight has been processed, no database write having failed and the embed
\* worker being alive.
C6_Claim ==
    (PipelineIdle /\ embeddings_queue = <<>> /\ hist.passes >= 1
                  /\ embed_alive /\ ~hist.write_failed)
        => \A p \in hist.absent : \A r \in db_files : r.relative_path # p

\* C7: the mtime stored in a File row is the mtime the file had on disk when
\* the parse worker read the content the row was built from.
C7_Claim ==
    \A r \in db_files : r.mtime = r.content_mtime

\* The documents that are persisted or on their way to the DB writer.
PersistedDocuments ==
    UNION {Range(r.documents) : r \in db_files}
    \cup UNION {Range(db_update[i].indexed_file.documents) :
                  i \in {k \in DOMAIN db_update : db_update[k].kind = "InsertFile"}}

\* C9: every persisted Document, and every Document of an InsertFile command,
\* has an embedding of length > 0, and all of them have the same length.
C9_EmbeddingsComplete ==
    /\ \A d \in PersistedDocuments : Len(d.embedding) > 0
    /\ \A d, e \in PersistedDocuments : Len(d.embedding) = Len(e.embedding)

\* C9 witness: the embed worker has hit a batch with an incomplete document
\* (its assertion failed) and the database holds a row with documents.
C9_Witness ==
    /\ ~embed_alive
    /\ \E r \in db_files : Len(r.documents) > 0

====
